---- MODULE Spec2Model ----
(***************************************************************************)
(* Model of the filter-graph compiler of the agentic video editor:         *)
(* buildFfmpegArgs (components/video-agent.tsx) lowers the operations of   *)
(* an AgentPlan and the output format into the argument list handed to     *)
(* ffmpeg.exec.  The tempo-chain helper clampAudioTempoChain is imported   *)
(* from '@/lib/agent'; it is modelled from section 4.3 of the              *)
(* specification.                                                          *)
(*                                                                         *)
(* Numbers.  Times are integers in milliseconds, speed factors and         *)
(* brightness values are integers in hundredths.  Tempo factors are exact  *)
(* rationals <<numerator, denominator>>.  Number.prototype.toFixed is      *)
(* modelled as decimal rounding (half away from zero) of an exact          *)
(* rational; the values used are chosen away from binary-representation    *)
(* ties.  An optional field is a sequence of length 0 (absent) or 1.       *)
(***************************************************************************)
EXTENDS Integers, Sequences, FiniteSets, TLC

\* The call of buildFfmpegArgs: its inputs, its result, and whether it ran.
VARIABLES operations, format, input, args, pc

\* The state of the VideoAgent component (useState / useRef).
VARIABLES prompt, sourceFile, sourceUrl, outputUrl, outputFileName, agentPlan,
          isReady, isLoadingCore, isProcessing, progress, error, ffmpegRef

\* The environment of the component: the FFmpeg instances created and their
\* load state, the file system of the engine, the object URLs created and
\* revoked, the processVideo invocations in flight, and the number of user
\* events handled so far.
VARIABLES instances, fs, urlCount, revoked, runs, events

compilerVars == <<operations, format, input, args, pc>>

componentVars ==
    <<prompt, sourceFile, sourceUrl, outputUrl, outputFileName, agentPlan,
      isReady, isLoadingCore, isProcessing, progress, error, ffmpegRef>>

environmentVars == <<instances, fs, urlCount, revoked, runs, events>>

agentVars == <<componentVars, environmentVars>>

vars == <<compilerVars, agentVars>>

\* ------------------------------------------------------------------ bounds
MaxOps == 4

MaxTempoFactor == 1000

\* User events handled by the component (prompt edits, file picks, clicks).
MaxEvents == 4

\* ------------------------------------------------------- generic helpers
None == <<>>

Some(v) == <<v>>

IsNumber(o) == Len(o) = 1

Abs(n) == IF n < 0 THEN -n ELSE n

Max(a, b) == IF a >= b THEN a ELSE b

RECURSIVE Pow10(_)
Pow10(k) == IF k = 0 THEN 1 ELSE 10 * Pow10(k - 1)

Digit(d) == SubSeq("0123456789", d + 1, d + 1)

RECURSIVE NatToStr(_)
NatToStr(n) == IF n < 10 THEN Digit(n) ELSE NatToStr(n \div 10) \o Digit(n % 10)

RECURSIVE PadDigits(_, _)
PadDigits(n, k) == IF k = 0 THEN "" ELSE PadDigits(n \div 10, k - 1) \o Digit(n % 10)

\* (n / d).toFixed(k) for d > 0: k digits after the point, rounded.
ToFixed(n, d, k) ==
    LET scaled == (2 * Abs(n) * Pow10(k) + d) \div (2 * d)
        body   == NatToStr(scaled \div Pow10(k)) \o
                  (IF k = 0 THEN "" ELSE "." \o PadDigits(scaled % Pow10(k), k))
    IN  IF n < 0 THEN "-" \o body ELSE body

\* Array.prototype.join
RECURSIVE Join(_, _)
Join(seq, sep) ==
    IF Len(seq) = 0 THEN ""
    ELSE IF Len(seq) = 1 THEN seq[1]
    ELSE seq[1] \o sep \o Join(Tail(seq), sep)

\* Array.prototype.find: the first element satisfying the test, as an option.
RECURSIVE FindKind(_, _)
FindKind(ops, k) ==
    IF Len(ops) = 0 THEN None
    ELSE IF Head(ops).kind = k THEN Some(Head(ops))
    ELSE FindKind(Tail(ops), k)

\* --------------------------------------------------- Operation (data model)
Trim(s, e) == [kind |-> "trim", start |-> s, end |-> e]

Grayscale == [kind |-> "grayscale"]

Speed(f) == [kind |-> "speed", factor |-> f]

Mute == [kind |-> "mute"]

Brightness(v) == [kind |-> "brightness", value |-> v]

Crop(m) == [kind |-> "crop", mode |-> m]

\* ------------------------------------------ Numeric Clamper (lib/agent)
\* Exact rationals <<n, d>> with d > 0.
Rat(n, d) == <<n, d>>

RatEq(a, b) == a[1] * b[2] = b[1] * a[2]

RatTwo == Rat(2, 1)

RatHalf == Rat(1, 2)

TempoInRange(q) == 2 * q[1] >= q[2] /\ q[1] <= 2 * q[2]

RECURSIVE HalveChain(_)
HalveChain(r) ==
    IF TempoInRange(r) THEN <<r>> ELSE <<RatTwo>> \o HalveChain(Rat(r[1], 2 * r[2]))

RECURSIVE DoubleChain(_)
DoubleChain(r) ==
    IF TempoInRange(r) THEN <<r>> ELSE <<RatHalf>> \o DoubleChain(Rat(2 * r[1], r[2]))

clampTempoNoIdentityCheck(q) ==
    IF TempoInRange(q) THEN <<q>>
    ELSE IF q[1] > 2 * q[2] THEN HalveChain(q)
    ELSE DoubleChain(q)

\* clampTempo(factor) of section 4.3: the chain of elementary tempo factors.
clampTempo(q) ==
    IF q[1] = q[2] THEN <<>>
    ELSE IF TempoInRange(q) THEN <<q>>
    ELSE IF q[1] > 2 * q[2] THEN HalveChain(q)
    ELSE DoubleChain(q)

RECURSIVE FracDigits(_, _)
FracDigits(r, d) ==
    IF r = 0 THEN "" ELSE Digit((10 * r) \div d) \o FracDigits((10 * r) % d, d)

\* Decimal rendering of a non-negative rational with a terminating expansion.
RatToStr(q) ==
    NatToStr(q[1] \div q[2]) \o
    (IF q[1] % q[2] = 0 THEN "" ELSE "." \o FracDigits(q[1] % q[2], q[2]))

TempoStr(q) == "atempo=" \o RatToStr(q)

\* clampAudioTempoChain(factor): the chain as the strings that
\* buildFfmpegArgs joins into the '-af' value; factor is in hundredths.
clampAudioTempoChain(factor) ==
    LET chain == clampTempo(Rat(factor, 100))
    IN  [i \in 1..Len(chain) |-> TempoStr(chain[i])]

\* ------------------------------------------------------- buildFfmpegArgs
trimOperation(ops) == FindKind(ops, "trim")

\* trimOperation?.start ?? 0
start(ops) ==
    LET t == trimOperation(ops)
    IN  IF IsNumber(t) /\ IsNumber(t[1].start) THEN t[1].start[1] ELSE 0

hasStartFromZero(ops) ==
    LET t == trimOperation(ops)
    IN  IsNumber(t) /\ IsNumber(t[1].start) /\ t[1].start[1] >= 0

hasStart(ops) ==
    LET t == trimOperation(ops)
    IN  IsNumber(t) /\ IsNumber(t[1].start) /\ t[1].start[1] > 0

hasEnd(ops) ==
    LET t == trimOperation(ops)
    IN  IsNumber(t) /\ IsNumber(t[1].end) /\ t[1].end[1] > 0

\* trimOperation?.end ?? 0
endOrZero(ops) ==
    LET t == trimOperation(ops)
    IN  IF IsNumber(t) /\ IsNumber(t[1].end) THEN t[1].end[1] ELSE 0

SeekArgs(ops) ==
    IF hasStart(ops) THEN <<"-ss", ToFixed(start(ops), 1000, 2)>> ELSE <<>>

DurationArgsAbsoluteEnd(ops) ==
    IF hasEnd(ops)
    THEN LET duration == Max(0, endOrZero(ops) - start(ops))
         IN  IF duration > 0 THEN <<"-t", ToFixed(endOrZero(ops), 1000, 2)>> ELSE <<>>
    ELSE <<>>

DurationArgs(ops) ==
    IF hasEnd(ops)
    THEN LET duration == Max(0, endOrZero(ops) - start(ops))
         IN  IF duration > 0 THEN <<"-t", ToFixed(duration, 1000, 2)>> ELSE <<>>
    ELSE <<>>

VideoFilterOfFactorNotInverted(operation) ==
    CASE operation.kind = "grayscale" -> <<"hue=s=0">>
      [] operation.kind = "speed" ->
            <<"setpts=" \o ToFixed(operation.factor, 100, 4) \o "*PTS">>
      [] operation.kind = "brightness" ->
            <<"eq=brightness=" \o ToFixed(operation.value, 100, 2)>>
      [] operation.kind = "crop" ->
            IF operation.mode = "square"
            THEN <<"crop=min(iw,ih):min(iw,ih)">>
            ELSE <<"scale=720:-2:force_original_aspect_ratio=increase,crop=720:1280">>
      [] OTHER -> <<>>

\* What one operation pushes onto videoFilters (the switch of the forEach).
VideoFilterOf(operation) ==
    CASE operation.kind = "grayscale" -> <<"hue=s=0">>
      [] operation.kind = "speed" ->
            <<"setpts=" \o ToFixed(100, operation.factor, 4) \o "*PTS">>
      [] operation.kind = "brightness" ->
            <<"eq=brightness=" \o ToFixed(operation.value, 100, 2)>>
      [] operation.kind = "crop" ->
            IF operation.mode = "square"
            THEN <<"crop=min(iw,ih):min(iw,ih)">>
            ELSE <<"scale=720:-2:force_original_aspect_ratio=increase,crop=720:1280">>
      [] OTHER -> <<>>

RECURSIVE UserVideoFiltersReversed(_)
UserVideoFiltersReversed(ops) ==
    IF Len(ops) = 0 THEN <<>>
    ELSE UserVideoFiltersReversed(Tail(ops)) \o VideoFilterOf(Head(ops))

\* videoFilters after the forEach: one push per operation, in list order.
RECURSIVE UserVideoFilters(_)
UserVideoFilters(ops) ==
    IF Len(ops) = 0 THEN <<>>
    ELSE VideoFilterOf(Head(ops)) \o UserVideoFilters(Tail(ops))

VideoFiltersFpsFirst(ops, fmt) ==
    (IF fmt = "gif" THEN <<"fps=12">> ELSE <<>>) \o UserVideoFilters(ops)

\* videoFilters after the forEach and the gif frame-rate push.
VideoFilters(ops, fmt) ==
    UserVideoFilters(ops) \o (IF fmt = "gif" THEN <<"fps=12">> ELSE <<>>)

AudioFilterOfEmptyChainPushed(operation) ==
    IF operation.kind = "speed"
    THEN <<Join(clampAudioTempoChain(operation.factor), ",")>>
    ELSE <<>>

\* What one operation pushes onto audioFilters.
AudioFilterOf(operation) ==
    IF operation.kind = "speed"
    THEN LET tempoChain == clampAudioTempoChain(operation.factor)
         IN  IF Len(tempoChain) > 0 THEN <<Join(tempoChain, ",")>> ELSE <<>>
    ELSE <<>>

RECURSIVE AudioFilters(_)
AudioFilters(ops) ==
    IF Len(ops) = 0 THEN <<>>
    ELSE AudioFilterOf(Head(ops)) \o AudioFilters(Tail(ops))

disableAudio(ops) == \E i \in 1..Len(ops) : ops[i].kind = "mute"

VideoFilterArgs(ops, fmt) ==
    LET videoFilters == VideoFilters(ops, fmt)
    IN  IF Len(videoFilters) > 0 THEN <<"-vf", Join(videoFilters, ",")>> ELSE <<>>

AudioArgsFilterFirst(ops) ==
    IF Len(AudioFilters(ops)) > 0 THEN <<"-af", Join(AudioFilters(ops), ",")>>
    ELSE IF disableAudio(ops) THEN <<"-an">>
    ELSE <<>>

AudioArgs(ops) ==
    IF disableAudio(ops) THEN <<"-an">>
    ELSE IF Len(AudioFilters(ops)) > 0 THEN <<"-af", Join(AudioFilters(ops), ",")>>
    ELSE <<>>

EncodingArgsAlwaysAudioCodec(ops, fmt) ==
    IF fmt = "mp4"
    THEN <<"-c:v", "libx264", "-preset", "veryfast", "-pix_fmt", "yuv420p">> \o
         <<"-c:a", "aac">> \o
         <<"-movflags", "faststart">>
    ELSE <<"-loop", "0">>

EncodingArgs(ops, fmt) ==
    IF fmt = "mp4"
    THEN <<"-c:v", "libx264", "-preset", "veryfast", "-pix_fmt", "yuv420p">> \o
         (IF ~disableAudio(ops) THEN <<"-c:a", "aac">> ELSE <<>>) \o
         <<"-movflags", "faststart">>
    ELSE <<"-loop", "0">>

buildFfmpegArgsDurationBeforeInput(ops, fmt, in, out) ==
    SeekArgs(ops) \o DurationArgs(ops) \o <<"-i", in>> \o
    VideoFilterArgs(ops, fmt) \o AudioArgs(ops) \o EncodingArgs(ops, fmt) \o <<out>>

buildFfmpegArgs(ops, fmt, in, out) ==
    SeekArgs(ops) \o <<"-i", in>> \o DurationArgs(ops) \o
    VideoFilterArgs(ops, fmt) \o AudioArgs(ops) \o EncodingArgs(ops, fmt) \o <<out>>

\* ------------------------------------------------------------ the inputs
\* Trims: start only, zero start, end only, end after / equal to / before the
\* start, and a zero end.
TrimOperations ==
    {Trim(Some(5000), None), Trim(Some(0), None), Trim(None, Some(5000)),
     Trim(Some(5000), Some(7250)), Trim(Some(5000), Some(5000)),
     Trim(Some(5000), Some(2500)), Trim(None, Some(0))}

SpeedFactors == {25, 100, 120, 400}

BrightnessValues == {-50, 20}

CropModes == {"square", "portrait"}

Formats == {"mp4", "gif"}

InputNames == {"input.mp4"}

AllOperations ==
    TrimOperations \cup
    {Speed(f) : f \in SpeedFactors} \cup
    {Brightness(v) : v \in BrightnessValues} \cup
    {Crop(m) : m \in CropModes} \cup
    {Grayscale, Mute}

\* Grayscale and Mute are flags and may repeat; of every other kind a plan
\* holds at most one operation.
FlagKinds == {"grayscale", "mute"}

HasKind(ops, k) == \E i \in 1..Len(ops) : ops[i].kind = k

RECURSIVE OperationLists(_)
OperationLists(n) ==
    IF n = 0 THEN {<<>>}
    ELSE LET shorter == OperationLists(n - 1)
         IN  shorter \cup
             {Append(l, o) : <<l, o>> \in
                 {p \in {q \in shorter : Len(q) = n - 1} \X AllOperations :
                     p[2].kind \in FlagKinds \/ ~HasKind(p[1], p[2].kind)}}

\* The operations planEditingSteps yields for defaultPrompt (section 8).
defaultPlanOperations == <<Trim(Some(5000), None), Grayscale, Speed(120), Mute>>

outputName(fmt) == "output." \o fmt

\* ------------------------------------------------ the VideoAgent component
SUPPORTED_INPUT_TYPES == {"video/mp4", "video/quicktime", "video/webm", "video/ogg"}

defaultPrompt ==
    "Trim the first 5 seconds, convert to black and white, speed up to 1.2x, and mute the audio."

\* The texts the user may type: the default, another edit, and a blank one.
Prompts == {defaultPrompt, "make it a grayscale gif", "   "}

\* The files the user may pick: two of supported types, one that is not.
Files ==
    {[name |-> "clip.mp4", type |-> "video/mp4"],
     [name |-> "talk.webm", type |-> "video/webm"],
     [name |-> "notes.txt", type |-> "text/plain"]}

\* Values of the engine's progress events, in thousandths: the ends and the
\* inside of the documented range 0..1.
EngineProgress == {0, 400, 1000}

Contains(s, sub) ==
    \E i \in 1..(Len(s) - Len(sub) + 1) : SubSeq(s, i, i + Len(sub) - 1) = sub

\* !prompt.trim(): the text is empty or holds white space only.
IsBlank(s) == \A i \in 1..Len(s) : SubSeq(s, i, i) = " "

\* planEditingSteps (lib/agent), from sections 4.1 and 4.2 of the
\* specification: independent keyword rules, operations in canonical order,
\* 'gif' selects the gif format.
planEditingSteps(p) ==
    [operations |->
        (IF Contains(p, "the first 5 seconds") THEN <<Trim(Some(5000), None)>> ELSE <<>>) \o
        (IF Contains(p, "black and white") \/ Contains(p, "grayscale")
         THEN <<Grayscale>> ELSE <<>>) \o
        (IF Contains(p, "1.2x") THEN <<Speed(120)>> ELSE <<>>) \o
        (IF Contains(p, "square") THEN <<Crop("square")>> ELSE <<>>) \o
        (IF Contains(p, "mute") THEN <<Mute>> ELSE <<>>),
     outputExtension |-> IF Contains(p, "gif") THEN "gif" ELSE "mp4"]

\* getExtension(name): the name from its last dot on, '.mp4' without a dot.
getExtension(name) ==
    LET dots == {i \in 1..Len(name) : SubSeq(name, i, i) = "."}
    IN  IF dots = {} THEN ".mp4"
        ELSE LET dot == CHOOSE i \in dots : \A j \in dots : j <= i
             IN  SubSeq(name, dot, Len(name))

\* The component after construction (the useState initial values).
AgentConstructed ==
    /\ prompt = defaultPrompt
    /\ sourceFile = None
    /\ sourceUrl = None
    /\ outputUrl = None
    /\ outputFileName = None
    /\ agentPlan = None
    /\ isReady = FALSE
    /\ isLoadingCore = FALSE
    /\ isProcessing = FALSE
    /\ progress = 0
    /\ error = None
    /\ ffmpegRef = 0
    /\ instances = <<>>
    /\ fs = {}
    /\ urlCount = 0
    /\ revoked = {}
    /\ runs = {}
    /\ events = 0

\* ------------------------------------------------------- the state machine
Init ==
    /\ operations \in OperationLists(MaxOps)
    /\ format \in Formats
    /\ input \in InputNames
    /\ args = <<>>
    /\ pc = "ready"
    /\ AgentConstructed

\* processVideo line 115: args = buildFfmpegArgs(plan.operations, ...)
Build ==
    /\ pc = "ready"
    /\ args' = buildFfmpegArgs(operations, format, input, outputName(format))
    /\ pc' = "built"
    /\ UNCHANGED <<operations, format, input>>
    /\ UNCHANGED agentVars

Next == Build

Spec == Init /\ [][Next]_vars

\* The tempo chain over every factor in (0, 10] in steps of 0.01: a plan
\* holding one speed operation.
InitTempo ==
    /\ operations \in {<<Speed(f)>> : f \in 1..MaxTempoFactor}
    /\ format = "mp4"
    /\ input \in InputNames
    /\ args = <<>>
    /\ pc = "ready"
    /\ AgentConstructed

SpecTempo == InitTempo /\ [][Next]_vars

\* ------------------------------------------- the handlers of VideoAgent
Min(a, b) == IF a <= b THEN a ELSE b

\* Math.round of t / 10 for t >= 0 (half rounds up).
RoundTenth(t) == (t + 5) \div 10

\* The ids of an optional object URL.
Ids(u) == {u[i].id : i \in 1..Len(u)}

\* URL.createObjectURL: a fresh URL; 'from' names the file whose content
\* (or whose edited content) the URL refers to.
NewUrl(from) == [id |-> urlCount + 1, from |-> from]

\* The cleanup of the effect on [sourceUrl, outputUrl]: when either
\* changes, the URLs of the previous render are revoked.
EffectCleanup(oldSource, oldOutput, newSource, newOutput) ==
    IF <<oldSource, oldOutput>> = <<newSource, newOutput>> THEN {}
    ELSE Ids(oldSource) \cup Ids(oldOutput)

IsLoaded(id) == id \in 1..Len(instances) /\ instances[id] = "loaded"

inputName(file) == "input" \o getExtension(file.name)

FsRemove(name) == {e \in fs : e.name # name}

FsWrite(name, from) == FsRemove(name) \cup {[name |-> name, from |-> from]}

FsHas(name) == \E e \in fs : e.name = name

FsRead(name) == CHOOSE e \in fs : e.name = name

\* One more user event is handled.
UserEvent == events < MaxEvents /\ events' = events + 1

\* onChange of the prompt textarea.
setPrompt(p) ==
    /\ UserEvent
    /\ p # prompt
    /\ prompt' = p
    /\ UNCHANGED <<sourceFile, sourceUrl, outputUrl, outputFileName, agentPlan,
                   isReady, isLoadingCore, isProcessing, progress, error, ffmpegRef>>
    /\ UNCHANGED <<instances, fs, urlCount, revoked, runs, compilerVars>>

handleFileChangeTypeCheckLast(picked) ==
    /\ UserEvent
    /\ IF picked = None
       THEN /\ error' = None
            /\ UNCHANGED <<sourceFile, sourceUrl, outputUrl, agentPlan, urlCount, revoked>>
       ELSE LET file    == picked[1]
                nextUrl == NewUrl(file.name)
            IN  /\ error' = IF file.type \notin SUPPORTED_INPUT_TYPES
                            THEN Some("Unsupported file type. Please use MP4, MOV, WEBM, or OGG.")
                            ELSE None
                /\ sourceFile' = Some(file)
                /\ sourceUrl' = Some(nextUrl)
                /\ outputUrl' = None
                /\ agentPlan' = None
                /\ urlCount' = urlCount + 1
                /\ revoked' = revoked \cup Ids(sourceUrl) \cup Ids(outputUrl) \cup
                              EffectCleanup(sourceUrl, outputUrl, Some(nextUrl), None)
    /\ UNCHANGED <<prompt, outputFileName, isReady, isLoadingCore, isProcessing,
                   progress, ffmpegRef>>
    /\ UNCHANGED <<instances, fs, runs, compilerVars>>

\* onChange of the file input; picked is the first selected file, if any.
handleFileChange(picked) ==
    /\ UserEvent
    /\ IF picked = None
       THEN /\ error' = None
            /\ UNCHANGED <<sourceFile, sourceUrl, outputUrl, agentPlan, urlCount, revoked>>
       ELSE IF picked[1].type \notin SUPPORTED_INPUT_TYPES
       THEN /\ error' = Some("Unsupported file type. Please use MP4, MOV, WEBM, or OGG.")
            /\ UNCHANGED <<sourceFile, sourceUrl, outputUrl, agentPlan, urlCount, revoked>>
       ELSE LET file    == picked[1]
                nextUrl == NewUrl(file.name)
            IN  /\ error' = None
                /\ sourceFile' = Some(file)
                /\ sourceUrl' = Some(nextUrl)
                /\ outputUrl' = None
                /\ agentPlan' = None
                /\ urlCount' = urlCount + 1
                /\ revoked' = revoked \cup Ids(sourceUrl) \cup Ids(outputUrl) \cup
                              EffectCleanup(sourceUrl, outputUrl, Some(nextUrl), None)
    /\ UNCHANGED <<prompt, outputFileName, isReady, isLoadingCore, isProcessing,
                   progress, ffmpegRef>>
    /\ UNCHANGED <<instances, fs, runs, compilerVars>>

\* onClick of 'Generate plan' (disabled while processing).
handlePlan ==
    /\ UserEvent
    /\ ~isProcessing
    /\ IF IsBlank(prompt)
       THEN /\ error' = Some("Describe the edit you want to make.")
            /\ UNCHANGED agentPlan
       ELSE /\ error' = None
            /\ agentPlan' = Some(planEditingSteps(prompt))
    /\ UNCHANGED <<prompt, sourceFile, sourceUrl, outputUrl, outputFileName,
                   isReady, isLoadingCore, isProcessing, progress, ffmpegRef>>
    /\ UNCHANGED <<instances, fs, urlCount, revoked, runs, compilerVars>>

\* ------------------------------------------------------- processVideo
\* An invocation of processVideo suspended at an await: pc names the pending
\* request; plan and file are the values its closure captured; ffmpeg is the
\* instance it uses; id is the number of the click that started it.
Run(id, at, plan, file, ffmpeg) ==
    [id |-> id, pc |-> at, plan |-> plan, file |-> file, ffmpeg |-> ffmpeg]

At(run, at) == [run EXCEPT !.pc = at]

\* catch and finally of processVideo (lines 131-136).
Throws(run, message) ==
    /\ error' = Some(message)
    /\ isProcessing' = FALSE
    /\ runs' = runs \ {run}

ExecutorMessage(id) ==
    IF IsLoaded(id) THEN "Failed to process the video." ELSE "ffmpeg is not loaded"

\* Lines 101-111 once loadFfmpeg has returned: the engine is taken from
\* ffmpegRef whatever its load state, and the first deleteFile is issued.
StartProcessing(others, id, plan, file, errorSoFar) ==
    IF ffmpegRef' = 0
    THEN /\ error' = Some("FFmpeg failed to initialise")
         /\ isProcessing' = FALSE
         /\ runs' = others
         /\ UNCHANGED progress
    ELSE /\ error' = errorSoFar
         /\ isProcessing' = TRUE
         /\ progress' = 0
         /\ runs' = others \cup {Run(id, "delete1", plan, file, ffmpegRef')}

\* onClick of 'Run agent' (disabled while processing or without a source
\* file): processVideo up to its first suspension.
processVideo ==
    /\ UserEvent
    /\ ~isProcessing
    /\ sourceFile # None
    /\ LET file       == sourceFile[1]
           plan       == IF agentPlan # None THEN agentPlan[1] ELSE planEditingSteps(prompt)
           errorSoFar == IF agentPlan = None /\ IsBlank(prompt)
                         THEN Some("Describe the edit you want to make.")
                         ELSE None
       IN  /\ agentPlan' = Some(plan)
           /\ IF isReady \/ isLoadingCore
              THEN /\ UNCHANGED <<isLoadingCore, instances, ffmpegRef>>
                   /\ StartProcessing(runs, events', plan, file, errorSoFar)
              ELSE /\ isLoadingCore' = TRUE
                   /\ instances' = Append(instances, "loading")
                   /\ ffmpegRef' = Len(instances) + 1
                   /\ error' = errorSoFar
                   /\ runs' = runs \cup {Run(events', "load", plan, file, Len(instances) + 1)}
                   /\ UNCHANGED <<isProcessing, progress>>
    /\ UNCHANGED <<prompt, sourceFile, sourceUrl, outputUrl, outputFileName, isReady>>
    /\ UNCHANGED <<fs, urlCount, revoked, compilerVars>>

\* instance.load() settles (lines 42-52) and processVideo resumes.
LoadDone(run, ok) ==
    /\ run.pc = "load"
    /\ instances' = [instances EXCEPT ![run.ffmpeg] = IF ok THEN "loaded" ELSE "failed"]
    /\ isReady' = (isReady \/ ok)
    /\ isLoadingCore' = FALSE
    /\ UNCHANGED ffmpegRef
    /\ StartProcessing(runs \ {run}, run.id, run.plan, run.file,
                       IF ok THEN error
                       ELSE Some("Failed to load FFmpeg. Please reload the page."))
    /\ UNCHANGED <<prompt, sourceFile, sourceUrl, outputUrl, outputFileName, agentPlan>>
    /\ UNCHANGED <<fs, urlCount, revoked, events, compilerVars>>

\* safeDelete(ffmpeg, inputName) settles; a failure is swallowed.
Delete1Done(run) ==
    /\ run.pc = "delete1"
    /\ fs' = IF IsLoaded(run.ffmpeg) THEN FsRemove(inputName(run.file)) ELSE fs
    /\ runs' = (runs \ {run}) \cup {At(run, "delete2")}
    /\ UNCHANGED <<componentVars, instances, urlCount, revoked, events, compilerVars>>

\* safeDelete(ffmpeg, outputName) settles; the file is fetched and written.
Delete2Done(run) ==
    /\ run.pc = "delete2"
    /\ fs' = IF IsLoaded(run.ffmpeg)
             THEN FsRemove(outputName(run.plan.outputExtension))
             ELSE fs
    /\ runs' = (runs \ {run}) \cup {At(run, "write")}
    /\ UNCHANGED <<componentVars, instances, urlCount, revoked, events, compilerVars>>

\* The arguments an invocation hands to ffmpeg.exec (lines 108-116).
ExecArgs(run) ==
    buildFfmpegArgs(run.plan.operations, run.plan.outputExtension,
                    inputName(run.file), outputName(run.plan.outputExtension))

\* writeFile resolves; ffmpeg.exec is called with ExecArgs(run).
WriteOk(run) ==
    /\ run.pc = "write"
    /\ IsLoaded(run.ffmpeg)
    /\ fs' = FsWrite(inputName(run.file), run.file.name)
    /\ runs' = (runs \ {run}) \cup {At(run, "exec")}
    /\ UNCHANGED <<componentVars, instances, urlCount, revoked, events, compilerVars>>

\* writeFile rejects: always on an engine that is not loaded.
WriteThrows(run) ==
    /\ run.pc = "write"
    /\ Throws(run, ExecutorMessage(run.ffmpeg))
    /\ UNCHANGED <<prompt, sourceFile, sourceUrl, outputUrl, outputFileName, agentPlan,
                   isReady, isLoadingCore, progress, ffmpegRef>>
    /\ UNCHANGED <<instances, fs, urlCount, revoked, events, compilerVars>>

\* ffmpeg.exec resolves having written the output file.
ExecOk(run) ==
    /\ run.pc = "exec"
    /\ FsHas(inputName(run.file))
    /\ fs' = FsWrite(outputName(run.plan.outputExtension),
                     FsRead(inputName(run.file)).from)
    /\ runs' = (runs \ {run}) \cup {At(run, "read")}
    /\ UNCHANGED <<componentVars, instances, urlCount, revoked, events, compilerVars>>

\* ffmpeg.exec resolves with a non-zero exit code (ignored): no output file.
ExecNoOutput(run) ==
    /\ run.pc = "exec"
    /\ runs' = (runs \ {run}) \cup {At(run, "read")}
    /\ UNCHANGED <<componentVars, instances, fs, urlCount, revoked, events, compilerVars>>

ExecThrows(run) ==
    /\ run.pc = "exec"
    /\ Throws(run, ExecutorMessage(run.ffmpeg))
    /\ UNCHANGED <<prompt, sourceFile, sourceUrl, outputUrl, outputFileName, agentPlan,
                   isReady, isLoadingCore, progress, ffmpegRef>>
    /\ UNCHANGED <<instances, fs, urlCount, revoked, events, compilerVars>>

ReadOkKeepsProcessing(run) ==
    /\ run.pc = "read"
    /\ FsHas(outputName(run.plan.outputExtension))
    /\ LET url == NewUrl(FsRead(outputName(run.plan.outputExtension)).from)
       IN  /\ outputUrl' = Some(url)
           /\ urlCount' = urlCount + 1
           /\ revoked' = revoked \cup Ids(outputUrl) \cup
                         EffectCleanup(sourceUrl, outputUrl, sourceUrl, Some(url))
    /\ outputFileName' = Some("agentic." \o run.plan.outputExtension)
    /\ progress' = 100
    /\ runs' = runs \ {run}
    /\ UNCHANGED <<prompt, sourceFile, sourceUrl, agentPlan, isReady, isLoadingCore,
                   isProcessing, error, ffmpegRef>>
    /\ UNCHANGED <<instances, fs, events, compilerVars>>

\* readFile resolves: the output URL is installed (lines 118-130, 135).
ReadOk(run) ==
    /\ run.pc = "read"
    /\ FsHas(outputName(run.plan.outputExtension))
    /\ LET url == NewUrl(FsRead(outputName(run.plan.outputExtension)).from)
       IN  /\ outputUrl' = Some(url)
           /\ urlCount' = urlCount + 1
           /\ revoked' = revoked \cup Ids(outputUrl) \cup
                         EffectCleanup(sourceUrl, outputUrl, sourceUrl, Some(url))
    /\ outputFileName' = Some("agentic." \o run.plan.outputExtension)
    /\ progress' = 100
    /\ isProcessing' = FALSE
    /\ runs' = runs \ {run}
    /\ UNCHANGED <<prompt, sourceFile, sourceUrl, agentPlan, isReady, isLoadingCore,
                   error, ffmpegRef>>
    /\ UNCHANGED <<instances, fs, events, compilerVars>>

\* readFile rejects: always when the output file does not exist.
ReadThrows(run) ==
    /\ run.pc = "read"
    /\ Throws(run, ExecutorMessage(run.ffmpeg))
    /\ UNCHANGED <<prompt, sourceFile, sourceUrl, outputUrl, outputFileName, agentPlan,
                   isReady, isLoadingCore, progress, ffmpegRef>>
    /\ UNCHANGED <<instances, fs, urlCount, revoked, events, compilerVars>>

ProgressEventUnclamped(t) ==
    /\ \E run \in runs : run.pc = "exec" /\ IsLoaded(run.ffmpeg)
    /\ progress' = RoundTenth(t)
    /\ UNCHANGED <<prompt, sourceFile, sourceUrl, outputUrl, outputFileName, agentPlan,
                   isReady, isLoadingCore, isProcessing, error, ffmpegRef>>
    /\ UNCHANGED <<environmentVars, compilerVars>>

\* The 'progress' handler of a loaded instance (lines 43-45), while
\* ffmpeg.exec runs; t is the engine's progress in thousandths.
ProgressEvent(t) ==
    /\ \E run \in runs : run.pc = "exec" /\ IsLoaded(run.ffmpeg)
    /\ progress' = Min(99, RoundTenth(t))
    /\ UNCHANGED <<prompt, sourceFile, sourceUrl, outputUrl, outputFileName, agentPlan,
                   isReady, isLoadingCore, isProcessing, error, ffmpegRef>>
    /\ UNCHANGED <<environmentVars, compilerVars>>

\* A rejection that processVideo catches.
RunThrows(run) == WriteThrows(run) \/ ExecThrows(run) \/ ReadThrows(run)

\* Every continuation of a suspended invocation.
RunStep(run) ==
    \/ \E ok \in BOOLEAN : LoadDone(run, ok)
    \/ Delete1Done(run)
    \/ Delete2Done(run)
    \/ WriteOk(run)
    \/ ExecOk(run)
    \/ ExecNoOutput(run)
    \/ ReadOk(run)
    \/ RunThrows(run)

PickedFiles == {None} \cup {Some(f) : f \in Files}

InitAgent ==
    /\ operations = <<>>
    /\ format = "mp4"
    /\ input = "input.mp4"
    /\ args = <<>>
    /\ pc = "ready"
    /\ AgentConstructed

NextAgent ==
    \/ \E p \in Prompts : setPrompt(p)
    \/ \E picked \in PickedFiles : handleFileChange(picked)
    \/ handlePlan
    \/ processVideo
    \/ \E run \in runs, ok \in BOOLEAN : LoadDone(run, ok)
    \/ \E run \in runs : Delete1Done(run)
    \/ \E run \in runs : Delete2Done(run)
    \/ \E run \in runs : WriteOk(run)
    \/ \E run \in runs : WriteThrows(run)
    \/ \E run \in runs : ExecOk(run)
    \/ \E run \in runs : ExecNoOutput(run)
    \/ \E run \in runs : ExecThrows(run)
    \/ \E run \in runs : ReadOk(run)
    \/ \E run \in runs : ReadThrows(run)
    \/ \E t \in EngineProgress : ProgressEvent(t)

SpecAgent == InitAgent /\ [][NextAgent]_vars

\* The engine settles every request and the event loop runs every
\* continuation: no invocation in flight stays suspended forever.
SpecAgentFair == SpecAgent /\ WF_vars(\E run \in runs : RunStep(run))

\* --------------------------------------------- reading an argument list
\* First index of s in seq, 0 when absent.
IndexOf(seq, s) ==
    IF \E i \in 1..Len(seq) : seq[i] = s
    THEN CHOOSE i \in 1..Len(seq) : seq[i] = s /\ \A j \in 1..(i - 1) : seq[j] # s
    ELSE 0

Count(seq, s) == Cardinality({i \in 1..Len(seq) : seq[i] = s})

Has(seq, s) == \E i \in 1..Len(seq) : seq[i] = s

\* The argument that follows the first occurrence of a directive.
ValueOf(seq, flag) == seq[IndexOf(seq, flag) + 1]

StartsWith(s, p) == Len(s) >= Len(p) /\ SubSeq(s, 1, Len(p)) = p

CommaAt(s) == {i \in 1..Len(s) : SubSeq(s, i, i) = ","}

\* The comma-separated elements of a filter-chain value.
RECURSIVE SplitChain(_)
SplitChain(s) ==
    IF CommaAt(s) = {} THEN <<s>>
    ELSE LET i == CHOOSE c \in CommaAt(s) : \A d \in CommaAt(s) : c <= d
         IN  <<SubSeq(s, 1, i - 1)>> \o SplitChain(SubSeq(s, i + 1, Len(s)))

Built == pc = "built"

\* The trim operations of the plan (at most one).
TrimsOf(ops) == {ops[i] : i \in {j \in 1..Len(ops) : ops[j].kind = "trim"}}

StartOrZero(t) == IF IsNumber(t.start) THEN t.start[1] ELSE 0

\* ------------------------------------------------------------------ C1
\* C1 (mute dominance): whenever the operations list holds a mute
\* operation, whatever else it holds and wherever the mute stands, the
\* built arguments contain '-an' exactly once and never '-af'.
C1_MuteDominance ==
    (Built /\ HasKind(operations, "mute")) =>
        (Count(args, "-an") = 1 /\ ~Has(args, "-af"))

\* A built plan with a speed of 0.25x (chain of two tempo factors) ahead of a mute.
C1_Witness ==
    /\ Built
    /\ \E i, j \in 1..Len(operations) :
          /\ i < j
          /\ operations[i] = Speed(25)
          /\ operations[j] = Mute
    /\ Has(args, "-an")

\* A built plan with a mute ahead of a speed of 1.2x.
C1_WitnessMuteFirst ==
    /\ Built
    /\ \E i, j \in 1..Len(operations) :
          /\ i < j
          /\ operations[i] = Mute
          /\ operations[j] = Speed(120)

\* ------------------------------------------------------------------ C2
\* C2 (trim seek placement): '-ss' is emitted if and only if the plan has
\* a trim operation whose start is a number greater than 0; when emitted
\* it carries the start with two decimals and stands before '-i', and no
\* '-ss' stands after '-i'.
C2_SeekPlacement ==
    Built =>
        /\ Has(args, "-ss") <=>
              (\E t \in TrimsOf(operations) : IsNumber(t.start) /\ t.start[1] > 0)
        /\ Has(args, "-ss") =>
              /\ IndexOf(args, "-ss") < IndexOf(args, "-i")
              /\ \A i \in 1..Len(args) : args[i] = "-ss" => i < IndexOf(args, "-i")
              /\ \E t \in TrimsOf(operations) :
                    ValueOf(args, "-ss") = ToFixed(t.start[1], 1000, 2)

\* A built plan trimmed from 5 s whose arguments start with '-ss 5.00 -i'.
C2_Witness ==
    /\ Built
    /\ Len(args) >= 3
    /\ args[1] = "-ss" /\ args[2] = "5.00" /\ args[3] = "-i"

\* A built plan whose trim starts at 0: no seek is emitted.
C2_WitnessZeroStart ==
    /\ Built
    /\ Trim(Some(0), None) \in TrimsOf(operations)
    /\ ~Has(args, "-ss")

\* ------------------------------------------------------------------ C3
\* C3 (trim duration): '-t' is emitted if and only if the trim operation
\* has an end strictly greater than its start (0 when the start is absent);
\* when emitted it stands after the '-i <input>' pair and its value is
\* end - start with two decimals, not the absolute end time.
C3_TrimDuration ==
    Built =>
        /\ Has(args, "-t") <=>
              (\E t \in TrimsOf(operations) :
                   IsNumber(t.end) /\ t.end[1] > StartOrZero(t))
        /\ Has(args, "-t") =>
              /\ Count(args, "-t") = 1
              /\ IndexOf(args, "-t") > IndexOf(args, "-i") + 1
              /\ \E t \in TrimsOf(operations) :
                    ValueOf(args, "-t") = ToFixed(t.end[1] - StartOrZero(t), 1000, 2)

\* Trim from 5 s to 7.25 s: the duration is 2.25, the absolute end is 7.25.
C3_Witness ==
    /\ Built
    /\ Trim(Some(5000), Some(7250)) \in TrimsOf(operations)
    /\ Has(args, "-t")
    /\ ValueOf(args, "-t") = "2.25"

\* Trim whose end equals its start: no duration is emitted.
C3_WitnessEndNotAfterStart ==
    /\ Built
    /\ Trim(Some(5000), Some(5000)) \in TrimsOf(operations)
    /\ ~Has(args, "-t")

\* ------------------------------------------------------------------ C4
\* Stage of one element of a '-vf' value: 1 grayscale, 2 speed,
\* 3 brightness, 4 crop; 0 for the frame-rate filter and for the scale
\* step that precedes the portrait crop.
ElemStage(e) ==
    IF StartsWith(e, "hue=s=0") THEN 1
    ELSE IF StartsWith(e, "setpts=") THEN 2
    ELSE IF StartsWith(e, "eq=brightness=") THEN 3
    ELSE IF StartsWith(e, "crop=") THEN 4
    ELSE 0

KindStage(k) ==
    CASE k = "grayscale" -> 1
      [] k = "speed" -> 2
      [] k = "brightness" -> 3
      [] k = "crop" -> 4
      [] OTHER -> 0

Positive(n) == n > 0

\* Stages of the user-requested filters in the emitted '-vf' value, in order.
EmittedStages ==
    IF Has(args, "-vf")
    THEN LET ch == SplitChain(ValueOf(args, "-vf"))
         IN  SelectSeq([i \in 1..Len(ch) |-> ElemStage(ch[i])], Positive)
    ELSE <<>>

\* Stages of the filter-producing operations of the plan, in list order.
RequestedStages ==
    SelectSeq([i \in 1..Len(operations) |-> KindStage(operations[i].kind)], Positive)

NonDecreasing(seq) == \A i \in 1..(Len(seq) - 1) : seq[i] <= seq[i + 1]

\* C4 as stated (canonical filter order for every operations list): in the
\* '-vf' value the user-requested filters stand in the order grayscale,
\* speed, brightness, crop, whatever the order of the operations list.
C4_CanonicalOrderAnyList == Built => NonDecreasing(EmittedStages)

\* C4 as amended: the user-requested filters stand in the '-vf' value in
\* the order of their operations in the list (one filter per operation);
\* hence they are in canonical order whenever the list is.
C4_OrderOfTheList ==
    Built =>
        /\ EmittedStages = RequestedStages
        /\ NonDecreasing(RequestedStages) => NonDecreasing(EmittedStages)

\* A built plan in canonical order with all four filter kinds.
C4_Witness ==
    /\ Built
    /\ RequestedStages = <<1, 2, 3, 4>>
    /\ EmittedStages = <<1, 2, 3, 4>>

\* ------------------------------------------------------------------ C5
CodecDirectives == {"-c:v", "-c:a", "-preset", "-pix_fmt", "-movflags"}

\* C5 (gif output): when the format is gif, 'fps=12' is the last element of
\* the video-filter chain and occurs nowhere else in it, the arguments
\* contain '-loop 0', and none of the codec directives.
C5_GifOutput ==
    (Built /\ format = "gif") =>
        /\ Count(args, "-vf") = 1
        /\ LET ch == SplitChain(ValueOf(args, "-vf"))
           IN  /\ ch[Len(ch)] = "fps=12"
               /\ \A i \in 1..(Len(ch) - 1) : ch[i] # "fps=12"
        /\ Count(args, "-loop") = 1
        /\ ValueOf(args, "-loop") = "0"
        /\ \A i \in 1..Len(args) : args[i] \notin CodecDirectives

\* A built gif plan whose first operation is grayscale and whose chain
\* has at least three elements ending in the frame-rate filter.
C5_Witness ==
    /\ Built
    /\ format = "gif"
    /\ Len(operations) > 0 /\ operations[1] = Grayscale
    /\ Has(args, "-vf")
    /\ LET ch == SplitChain(ValueOf(args, "-vf"))
       IN  Len(ch) >= 3 /\ ch[1] = "hue=s=0" /\ ch[Len(ch)] = "fps=12"

\* ------------------------------------------------------------------ C6
EncodingDirectives == CodecDirectives \cup {"-loop"}

DirectiveGroups ==
    <<{"-ss"}, {"-i"}, {"-t"}, {"-vf"}, {"-an", "-af"}, EncodingDirectives>>

AllDirectives == UNION {DirectiveGroups[g] : g \in 1..Len(DirectiveGroups)}

\* Number of the group a directive belongs to, 0 for any other argument.
GroupOf(a) ==
    IF a \in AllDirectives
    THEN CHOOSE g \in 1..Len(DirectiveGroups) : a \in DirectiveGroups[g]
    ELSE 0

\* C6 (argument layout): the groups stand in the order [-ss], -i <input>,
\* [-t], [-vf], [-an or -af], encoding flags, <output>; '-i' occurs exactly
\* once, each optional directive at most once, '-vf' exactly when the filter
\* chain is non-empty, and the output name is the last element.
C6_ArgumentLayout ==
    Built =>
        /\ Count(args, "-i") = 1
        /\ ValueOf(args, "-i") = input
        /\ LET gs == SelectSeq([i \in 1..Len(args) |-> GroupOf(args[i])], Positive)
           IN  /\ \A k \in 1..(Len(gs) - 1) :
                     gs[k] < gs[k + 1] \/ (gs[k] = 6 /\ gs[k + 1] = 6)
               /\ Len(gs) > 0 /\ gs[Len(gs)] = 6
        /\ Has(args, "-vf") <=>
              (format = "gif" \/ \E i \in 1..Len(operations) :
                                    KindStage(operations[i].kind) > 0)
        /\ Has(args, "-vf") => Len(ValueOf(args, "-vf")) > 0
        /\ args[Len(args)] = outputName(format)
        /\ Count(args, outputName(format)) = 1
        /\ args[1] \in {"-ss", "-i"}
        /\ Len(args) = 1 + Count(args, "-an")
                         + 2 * Cardinality({i \in 1..Len(args) :
                                               args[i] \in AllDirectives \ {"-an"}})

\* A built plan that emits every optional group: seek, duration, video
\* filter and audio filter.
C6_Witness ==
    /\ Built
    /\ Has(args, "-ss") /\ Has(args, "-t") /\ Has(args, "-vf") /\ Has(args, "-af")
    /\ args[Len(args)] = "output.mp4"

\* ------------------------------------------------------------------ C7
SpeedsOf(ops) == {ops[i] : i \in {j \in 1..Len(ops) : ops[j].kind = "speed"}}

\* C7 (audio filter): without a mute, a speed operation with a non-empty
\* tempo chain yields exactly one '-af' whose value is the chain elements
\* joined with commas (and no '-an'); without a mute and without a speed,
\* or with an empty chain, neither '-af' nor '-an' is emitted.
C7_AudioFilter ==
    (Built /\ ~HasKind(operations, "mute")) =>
        /\ \A s \in SpeedsOf(operations) :
              Len(clampAudioTempoChain(s.factor)) > 0 =>
                 /\ Count(args, "-af") = 1
                 /\ SplitChain(ValueOf(args, "-af")) = clampAudioTempoChain(s.factor)
                 /\ ~Has(args, "-an")
        /\ (\A s \in SpeedsOf(operations) : Len(clampAudioTempoChain(s.factor)) = 0)
              => (~Has(args, "-af") /\ ~Has(args, "-an"))

\* An unmuted plan with speed 0.25x: the audio filter is two halvings.
C7_Witness ==
    /\ Built
    /\ ~HasKind(operations, "mute")
    /\ Speed(25) \in SpeedsOf(operations)
    /\ Has(args, "-af")
    /\ ValueOf(args, "-af") = "atempo=0.5,atempo=0.5"

\* An unmuted plan with speed 1x: no audio directive.
C7_WitnessIdentity ==
    /\ Built
    /\ ~HasKind(operations, "mute")
    /\ Speed(100) \in SpeedsOf(operations)
    /\ ~Has(args, "-af")

\* ------------------------------------------------------------------ C8
\* C8 (mp4 encoding flags): when the format is mp4 the arguments contain,
\* in this order, '-c:v libx264', '-preset veryfast', '-pix_fmt yuv420p',
\* then '-c:a aac' if and only if the plan has no mute, then
\* '-movflags faststart'; they never contain '-loop'.
C8_Mp4EncodingFlags ==
    (Built /\ format = "mp4") =>
        LET i == IndexOf(args, "-c:v")
        IN  /\ i > 0
            /\ SubSeq(args, i, i + 5) =
                  <<"-c:v", "libx264", "-preset", "veryfast", "-pix_fmt", "yuv420p">>
            /\ Has(args, "-c:a") <=> ~HasKind(operations, "mute")
            /\ SubSeq(args, i + 6, Len(args) - 1) =
                  IF HasKind(operations, "mute")
                  THEN <<"-movflags", "faststart">>
                  ELSE <<"-c:a", "aac", "-movflags", "faststart">>
            /\ ~Has(args, "-loop")

\* A muted mp4 plan: '-pix_fmt yuv420p' is directly followed by '-movflags'.
C8_Witness ==
    /\ Built
    /\ format = "mp4"
    /\ HasKind(operations, "mute")
    /\ Has(args, "-movflags")
    /\ args[IndexOf(args, "-movflags") - 1] = "yuv420p"

\* An unmuted mp4 plan carrying the audio codec.
C8_WitnessAudioCodec ==
    /\ Built
    /\ format = "mp4"
    /\ ~HasKind(operations, "mute")
    /\ Has(args, "-c:a")

\* ------------------------------------------------------------------ C9
RECURSIVE RatProduct(_)
RatProduct(chain) ==
    IF Len(chain) = 0 THEN Rat(1, 1)
    ELSE LET rest == RatProduct(Tail(chain))
         IN  Rat(chain[1][1] * rest[1], chain[1][2] * rest[2])

\* |a - b| <= 1e-6 for rationals a and b.
RatWithinMillionth(a, b) ==
    Abs(a[1] * b[2] - b[1] * a[2]) * 1000000 <= a[2] * b[2]

\* C9 (tempo chain invariant): for every speed factor f in (0, 10], every
\* element of the tempo chain lies in [0.5, 2.0] and the product of the
\* elements equals f within 1e-6; the chain of f = 1 is empty.
C9_TempoChain ==
    Built =>
        \A s \in SpeedsOf(operations) :
            LET f     == Rat(s.factor, 100)
                chain == clampTempo(f)
            IN  /\ \A i \in 1..Len(chain) :
                      /\ 2 * chain[i][1] >= chain[i][2]
                      /\ chain[i][1] <= 2 * chain[i][2]
                /\ RatWithinMillionth(RatProduct(chain), f)
                /\ s.factor = 100 => chain = <<>>
                /\ Len(chain) > 0 =>
                      (Has(args, "-af") /\
                       Len(SplitChain(ValueOf(args, "-af"))) = Len(chain))

\* Speed 10x: three doublings and a remainder of 1.25.
C9_Witness ==
    /\ Built
    /\ operations = <<Speed(1000)>>
    /\ clampTempo(Rat(1000, 100)) = <<Rat(2, 1), Rat(2, 1), Rat(2, 1), Rat(1000, 800)>>
    /\ ValueOf(args, "-af") = "atempo=2,atempo=2,atempo=2,atempo=1.25"

\* Speed 0.1x: three halvings and a remainder of 0.8.
C9_WitnessSlow ==
    /\ Built
    /\ operations = <<Speed(10)>>
    /\ ValueOf(args, "-af") = "atempo=0.5,atempo=0.5,atempo=0.5,atempo=0.8"

\* Speed 1x: the empty chain, no audio filter.
C9_WitnessIdentity ==
    /\ Built
    /\ operations = <<Speed(100)>>
    /\ ~Has(args, "-af")

\* ----------------------------------------------------------------- C10
\* C10 (end-to-end example): for the plan of the default prompt (trim from
\* 5 s without end, grayscale, speed 1.2, mute) and format mp4 the
\* arguments contain '-ss 5.00' before '-i', the '-vf' value
\* 'hue=s=0,setpts=0.8333*PTS', '-an', and no '-t', '-af' or '-c:a'.
C10_DefaultPrompt ==
    (Built /\ operations = defaultPlanOperations /\ format = "mp4") =>
        /\ Has(args, "-ss")
        /\ ValueOf(args, "-ss") = "5.00"
        /\ IndexOf(args, "-ss") < IndexOf(args, "-i")
        /\ Has(args, "-vf")
        /\ ValueOf(args, "-vf") = "hue=s=0,setpts=0.8333*PTS"
        /\ Has(args, "-an")
        /\ ~Has(args, "-t")
        /\ ~Has(args, "-af")
        /\ ~Has(args, "-c:a")

\* The complete argument list built for the default plan.
C10_Witness ==
    /\ Built
    /\ operations = defaultPlanOperations
    /\ format = "mp4"
    /\ args = <<"-ss", "5.00", "-i", input, "-vf", "hue=s=0,setpts=0.8333*PTS", "-an",
                "-c:v", "libx264", "-preset", "veryfast", "-pix_fmt", "yuv420p",
                "-movflags", "faststart", "output.mp4">>

\* ----------------------------------------------------------------- C11
\* C11: whenever 'Run agent' starts processVideo, the plan it captures,
\* compiles and executes is the plan of the prompt text current at that
\* moment: a stored plan is reused only while the prompt is the one it was
\* generated from.
C11_PlanOfCurrentPrompt ==
    [][processVideo => agentPlan' = Some(planEditingSteps(prompt))]_vars

\* ----------------------------------------------------------------- C12
\* C12: with an empty or whitespace-only prompt, 'Generate plan' and 'Run
\* agent' store no plan and start no invocation that could reach the
\* executor; they only set the error message.
C12_BlankPromptRejected ==
    [][(IsBlank(prompt) /\ (handlePlan \/ processVideo)) =>
          /\ agentPlan' = agentPlan
          /\ runs' = runs
          /\ error' = Some("Describe the edit you want to make.")]_vars

\* ----------------------------------------------------------------- C13
\* C13: handleFileChange on a file of an unsupported type sets the error
\* message and leaves sourceFile, sourceUrl, outputUrl and agentPlan as they
\* were; hence the selected file and the file of every invocation in flight
\* are of a supported type.
C13_UnsupportedTypeRejected ==
    /\ [][\A f \in Files :
            (f.type \notin SUPPORTED_INPUT_TYPES /\ handleFileChange(Some(f))) =>
                /\ error' = Some("Unsupported file type. Please use MP4, MOV, WEBM, or OGG.")
                /\ UNCHANGED <<sourceFile, sourceUrl, outputUrl, agentPlan>>]_vars
    /\ [](/\ \A i \in 1..Len(sourceFile) : sourceFile[i].type \in SUPPORTED_INPUT_TYPES
          /\ \A run \in runs : run.file.type \in SUPPORTED_INPUT_TYPES)

\* An unsupported file was picked while a source, its plan and an output
\* were in place, and they still are.
C13_Witness ==
    /\ error = Some("Unsupported file type. Please use MP4, MOV, WEBM, or OGG.")
    /\ sourceFile # None
    /\ sourceUrl # None
    /\ agentPlan # None
    /\ outputUrl # None

\* ----------------------------------------------------------------- C14
\* The invocation started by click number id is suspended at an executor
\* request (deleteFile, writeFile, exec or readFile).
AtExecutor(id) == \E run \in runs : run.id = id /\ run.pc # "load"

Ended(id) == \A run \in runs : run.id # id

\* C14: every invocation that reaches the executor eventually ends, and
\* the step that ends an invocation sets isProcessing to false; a failed
\* load sets an error message and leaves outputUrl alone and progress
\* below 100; a rejected writeFile, exec or readFile sets an error message,
\* leaves outputUrl and progress as they were and ends the invocation
\* without starting another.
C14_ExecutorFailureHandling ==
    /\ \A id \in 1..MaxEvents : AtExecutor(id) ~> (Ended(id) /\ ~isProcessing)
    /\ [][(\E run \in runs : run \notin runs' /\ Ended(run.id)') => ~isProcessing']_vars
    /\ [][\A run \in runs : LoadDone(run, FALSE) =>
             /\ error' # None
             /\ outputUrl' = outputUrl
             /\ progress' # 100]_vars
    /\ [][\A run \in runs : RunThrows(run) =>
             /\ error' # None
             /\ outputUrl' = outputUrl
             /\ progress' = progress
             /\ runs' = runs \ {run}]_vars

\* A run failed after an earlier one had succeeded: the error is set, the
\* earlier output is still installed, nothing is in flight.
C14_Witness ==
    /\ error \in {Some("Failed to process the video."), Some("ffmpeg is not loaded")}
    /\ outputUrl # None
    /\ progress # 100
    /\ ~isProcessing
    /\ runs = {}

\* ----------------------------------------------------------------- C15
\* C15: an invocation issues executor requests (deleteFile, writeFile, exec,
\* readFile) only on an FFmpeg instance whose load() has completed
\* successfully.
C15_EngineLoadedBeforeUse ==
    \A run \in runs : run.pc # "load" => IsLoaded(run.ffmpeg)

\* ----------------------------------------------------------------- C16
\* C16: an object URL held in sourceUrl or outputUrl has not been revoked.
C16_NoRevokedUrlInUse ==
    (Ids(sourceUrl) \cup Ids(outputUrl)) \cap revoked = {}

\* ----------------------------------------------------------------- C17
\* C17: whenever outputUrl is set, the output it refers to was produced
\* from the file held in sourceFile.
C17_OutputOfSelectedSource ==
    outputUrl # None => (sourceFile # None /\ outputUrl[1].from = sourceFile[1].name)

C18_WitnessClamped ==
    /\ progress = 99
    /\ \E run \in runs : run.pc = "exec"

====
